---- MODULE Spec2Model ----
(***************************************************************************)
(* ConsumeSharedModule of rspack_plugin_mf (sharing/consume_shared_module). *)
(* An entity is constructed from ConsumeOptions (new), built (build returns *)
(* a BuildResult), receives dependency / block ids (add_dependency_id,      *)
(* add_block_id) and is asked for code (code_generation).                   *)
(*                                                                          *)
(* Option<T> is modelled as a sequence of length 0 (None) or 1 (Some).      *)
(* Strings are TLA+ strings, composed with \o as format! composes them.     *)
(***************************************************************************)
EXTENDS Naturals, Sequences, FiniteSets, TLC

VARIABLES
  context,              \* m -> Context
  options,              \* m -> ConsumeOptions
  identifier,           \* m -> ModuleIdentifier
  readable_identifier,  \* m -> String
  lib_ident,            \* m -> String
  dependencies,         \* m -> Vec<DependencyId>
  blocks,               \* m -> Vec<AsyncDependenciesBlockId>
  compiler_options,     \* build_context.compiler_options.output of the compilation
  build_result,         \* m -> Option<BuildResult>, what the last build returned
  generated,            \* m -> Option<outcome of the last code_generation>
  payloads              \* m -> set of the payloads code_generation has returned

vars == <<context, options, identifier, readable_identifier, lib_ident,
          dependencies, blocks, compiler_options, build_result, generated, payloads>>

entity == <<context, options, identifier, readable_identifier, lib_ident,
            compiler_options>>

----------------------------------------------------------------------------
(* Bounds and input domains *)

\* longest dependency / block id list the model lets add_*_id build
MaxIds == 2

None == <<>>
Some(x) == <<x>>
IsSome(o) == Len(o) = 1
Unwrap(o) == o[1]

Contexts == {"/app", "/lib"}
Scopes == {"default", "s"}
Keys == {"k"}
Versions == {[text |-> "1.0.0"]}
Imports == {"./a"}
Resolved == {"/app/a.js"}
DependencyIds == {1, 2}
BlockIds == {1, 2}
Runtimes == {None, Some("main")}
OutputOptions == {[hash_function |-> "xxhash64", hash_digest |-> "hex"],
                  [hash_function |-> "md4", hash_digest |-> "hex"]}

Opt(S) == {None} \cup {Some(x) : x \in S}

ConsumeOptions ==
  [share_scope : Scopes, share_key : Keys, required_version : Opt(Versions),
   strict_version : BOOLEAN, singleton : BOOLEAN, import : Opt(Imports),
   import_resolved : Opt(Resolved), eager : BOOLEAN]

\* the options two modules of one compilation are drawn from
PairOptions ==
  [share_scope : {"s"}, share_key : Keys, required_version : {None},
   strict_version : BOOLEAN, singleton : BOOLEAN, import : Opt({"./a"}),
   import_resolved : {None}, eager : {TRUE}]

OptionFields == {"share_scope", "share_key", "required_version", "strict_version",
                 "singleton", "import", "import_resolved", "eager"}

----------------------------------------------------------------------------
(* Helpers outside the file: Display of a version, json_stringify *)

to_string(v) == v.text

json_stringify(s) == "\"" \o s \o "\""

----------------------------------------------------------------------------
(* ConsumeSharedModule::new *)

then_some(b, s) == IF b THEN s ELSE ""

format_identifier(o) ==
  "consume shared module (" \o o.share_scope \o ") " \o o.share_key \o "@"
  \o (IF IsSome(o.required_version) THEN to_string(Unwrap(o.required_version)) ELSE "*")
  \o then_some(o.strict_version, " (strict)")
  \o then_some(o.singleton, " (strict)")
  \o (IF IsSome(o.import_resolved)
        THEN " (fallback: " \o Unwrap(o.import_resolved) \o ")" ELSE "")
  \o then_some(o.eager, " (eager)")

\* slip: the fallback request left out of the logical path
format_lib_ident_no_import(o) ==
  "webpack/sharing/consume/" \o o.share_scope \o "/" \o o.share_key

format_lib_ident(o) ==
  "webpack/sharing/consume/" \o o.share_scope \o "/" \o o.share_key
  \o (IF IsSome(o.import) THEN "/" \o Unwrap(o.import) ELSE "")

new(ctx, o) ==
  [blocks |-> <<>>,
   dependencies |-> <<>>,
   identifier |-> format_identifier(o),
   lib_ident |-> format_lib_ident(o),
   readable_identifier |-> format_identifier(o),
   context |-> ctx,
   options |-> o]

\* the state after every module of the set Ms has been constructed
Constructed(Ms, CtxSet, OptSet) ==
  \E cs \in [Ms -> CtxSet], os \in [Ms -> OptSet] :
    /\ compiler_options \in OutputOptions
    /\ context = cs
    /\ options = os
    /\ identifier = [m \in Ms |-> new(cs[m], os[m]).identifier]
    /\ readable_identifier = [m \in Ms |-> new(cs[m], os[m]).readable_identifier]
    /\ lib_ident = [m \in Ms |-> new(cs[m], os[m]).lib_ident]
    /\ dependencies = [m \in Ms |-> new(cs[m], os[m]).dependencies]
    /\ blocks = [m \in Ms |-> new(cs[m], os[m]).blocks]
    /\ build_result = [m \in Ms |-> None]
    /\ generated = [m \in Ms |-> None]
    /\ payloads = [m \in Ms |-> {}]

Modules == DOMAIN options

Init == Constructed({1}, {"/app"}, ConsumeOptions)

InitPair == Constructed({1, 2}, Contexts, PairOptions)

----------------------------------------------------------------------------
(* impl Hash, impl PartialEq *)

\* slip: the mutable dependency list hashed with the identifier
hash_with_dependencies(m) ==
  <<"__rspack_internal__ConsumeSharedModule", identifier[m], dependencies[m]>>

hash(m) == <<"__rspack_internal__ConsumeSharedModule", identifier[m]>>

eq(a, b) == identifier[a] = identifier[b]

\* Module::update_hash feeds the module's Hash impl into the hasher
update_hash(m, hasher) == [hasher EXCEPT !.fed = Append(@, hash(m))]

\* RspackHash::from(&output), digest(&hash_digest); collision-free: the digest
\* is the hash function, everything fed, and the digest format
RspackHash(output) == [function |-> output.hash_function, fed |-> <<>>]
digest(hasher, hash_digest) == <<hasher.function, hasher.fed, hash_digest>>

----------------------------------------------------------------------------
(* ConsumeSharedModule::build *)

ConsumeSharedFallbackDependency(request) ==
  [type |-> "ConsumeSharedFallbackDependency", request |-> request]

AsyncDependenciesBlock(parent, deps) == [parent |-> parent, dependencies |-> deps]

build_dependencies(m) ==
  IF IsSome(options[m].import) /\ options[m].eager
    THEN <<ConsumeSharedFallbackDependency(Unwrap(options[m].import))>>
    ELSE <<>>

\* slip: the block built whether or not the fallback is eager
build_blocks_ignores_eager(m) ==
  IF IsSome(options[m].import)
    THEN <<AsyncDependenciesBlock(identifier[m],
             <<ConsumeSharedFallbackDependency(Unwrap(options[m].import))>>)>>
    ELSE <<>>

build_blocks(m) ==
  IF IsSome(options[m].import) /\ ~options[m].eager
    THEN <<AsyncDependenciesBlock(identifier[m],
             <<ConsumeSharedFallbackDependency(Unwrap(options[m].import))>>)>>
    ELSE <<>>

build_hash(m, output) ==
  digest(update_hash(m, RspackHash(output)), output.hash_digest)

\* slip: build records an id for its dependency on the module itself
Build_records_ids(m) ==
  /\ build_result' = [build_result EXCEPT ![m] =
       Some([hash |-> build_hash(m, compiler_options),
             dependencies |-> build_dependencies(m),
             blocks |-> build_blocks(m)])]
  /\ dependencies' = [dependencies EXCEPT ![m] =
       IF build_dependencies(m) # <<>> /\ Len(@) < MaxIds THEN Append(@, 1) ELSE @]
  /\ UNCHANGED <<entity, blocks, generated, payloads>>

Build(m) ==
  /\ build_result' = [build_result EXCEPT ![m] =
       Some([hash |-> build_hash(m, compiler_options),
             dependencies |-> build_dependencies(m),
             blocks |-> build_blocks(m)])]
  /\ UNCHANGED <<entity, dependencies, blocks, generated, payloads>>

----------------------------------------------------------------------------
(* impl DependenciesBlock *)

AddDependencyId(m, dependency) ==
  /\ Len(dependencies[m]) < MaxIds
  /\ dependencies' = [dependencies EXCEPT ![m] = Append(@, dependency)]
  /\ UNCHANGED <<entity, blocks, build_result, generated, payloads>>

AddBlockId(m, block) ==
  /\ Len(blocks[m]) < MaxIds
  /\ blocks' = [blocks EXCEPT ![m] = Append(@, block)]
  /\ UNCHANGED <<entity, dependencies, build_result, generated, payloads>>

----------------------------------------------------------------------------
(* ConsumeSharedModule::code_generation *)

SHARE_SCOPE_MAP == "SHARE_SCOPE_MAP"

\* requirements the module factory builders of the compilation may add
FactoryRequirements == {"REQUIRE", "ENSURE_CHUNK"}

\* slip: "Strict" appended without a required version
loader_function_strict_unguarded(o) ==
  "loaders.load"
  \o then_some(o.strict_version, "Strict")
  \o then_some(o.singleton, "Singleton")
  \o then_some(IsSome(o.required_version), "VersionCheck")

loader_function(o) ==
  "loaders.load"
  \o (IF IsSome(o.required_version)
        THEN then_some(o.strict_version, "Strict")
             \o then_some(o.singleton, "Singleton")
             \o "VersionCheck"
        ELSE then_some(o.singleton, "Singleton"))

loader_args(o) ==
  <<json_stringify(o.share_scope), json_stringify(o.share_key)>>
  \o (IF IsSome(o.required_version)
        THEN <<"loaders.parseRange("
               \o json_stringify(to_string(Unwrap(o.required_version))) \o ")">>
        ELSE <<>>)

sync_module_factory(dep, request) ==
  [factory |-> "sync", id |-> dep, request |-> request]

async_module_factory(block, request) ==
  [factory |-> "async", id |-> block, request |-> request]

\* the slice the factory closure indexes with [0]
factory_slice(m) == IF options[m].eager THEN dependencies[m] ELSE blocks[m]

factory_index == 1

\* slip: the factories of the two branches exchanged
fallback_factory_swapped(m) ==
  IF IsSome(options[m].import)
    THEN Some(IF options[m].eager
                THEN async_module_factory(dependencies[m][factory_index],
                                          Unwrap(options[m].import))
                ELSE sync_module_factory(blocks[m][factory_index],
                                         Unwrap(options[m].import)))
    ELSE None

\* slip: the last recorded id used instead of the first
fallback_factory_last(m) ==
  IF IsSome(options[m].import)
    THEN Some(IF options[m].eager
                THEN sync_module_factory(dependencies[m][Len(dependencies[m])],
                                         Unwrap(options[m].import))
                ELSE async_module_factory(blocks[m][Len(blocks[m])],
                                          Unwrap(options[m].import)))
    ELSE None

fallback_factory(m) ==
  IF IsSome(options[m].import)
    THEN Some(IF options[m].eager
                THEN sync_module_factory(dependencies[m][factory_index],
                                         Unwrap(options[m].import))
                ELSE async_module_factory(blocks[m][factory_index],
                                          Unwrap(options[m].import)))
    ELSE None

CodeGenerationDataConsumeShared(m) ==
  [share_scope |-> options[m].share_scope,
   share_key |-> options[m].share_key,
   import |-> options[m].import,
   required_version |-> options[m].required_version,
   strict_version |-> options[m].strict_version,
   singleton |-> options[m].singleton,
   eager |-> options[m].eager,
   fallback |-> fallback_factory(m)]

\* slip: the slice indexed before the import is looked at
index_panics_without_import(m) == factory_slice(m) = <<>>

\* indexing an empty slice with [0] panics
index_panics(m) == IsSome(options[m].import) /\ factory_slice(m) = <<>>

\* function and args are locals of code_generation: composed on every call,
\* not stored in the CodeGenerationResult; kept here as they stand at return
code_generation(m, extra) ==
  IF index_panics(m)
    THEN [status |-> "panic"]
    ELSE [status |-> "ok",
          function |-> loader_function(options[m]),
          args |-> loader_args(options[m]),
          runtime_requirements |-> {SHARE_SCOPE_MAP} \cup extra,
          data |-> CodeGenerationDataConsumeShared(m)]

CodeGeneration(m, runtime, extra) ==
  /\ extra \in (IF IsSome(options[m].import) THEN SUBSET FactoryRequirements ELSE {{}})
  /\ generated' = [generated EXCEPT ![m] = Some(code_generation(m, extra))]
  /\ payloads' = [payloads EXCEPT ![m] =
       IF index_panics(m) THEN @ ELSE @ \cup {CodeGenerationDataConsumeShared(m)}]
  /\ UNCHANGED <<entity, dependencies, blocks, build_result>>

----------------------------------------------------------------------------
Next ==
  \/ \E m \in Modules : Build(m)
  \/ \E m \in Modules, d \in DependencyIds : AddDependencyId(m, d)
  \/ \E m \in Modules, b \in BlockIds : AddBlockId(m, b)
  \/ \E m \in Modules, runtime \in Runtimes, extra \in SUBSET FactoryRequirements :
       CodeGeneration(m, runtime, extra)

Spec == Init /\ [][Next]_vars

\* two modules of one compilation: built, and handed dependency ids
NextPair ==
  \/ \E m \in Modules : Build(m)
  \/ \E m \in Modules, d \in DependencyIds : AddDependencyId(m, d)

SpecPair == InitPair /\ [][NextPair]_vars
----------------------------------------------------------------------------
(* Properties *)

Built(m) == IsSome(build_result[m])
Result(m) == Unwrap(build_result[m])
Generated(m) == IsSome(generated[m]) /\ Unwrap(generated[m]).status = "ok"
Panicked(m) == IsSome(generated[m]) /\ Unwrap(generated[m]).status = "panic"
Output(m) == Unwrap(generated[m])

CodeGenerationStep ==
  \E m \in Modules, runtime \in Runtimes, extra \in SUBSET FactoryRequirements :
    CodeGeneration(m, runtime, extra)

BuildStep == \E m \in Modules : Build(m)

\* C1: what build returns holds one dependency and no block when import is
\* present and eager, no dependency and one block when import is present and
\* not eager, neither when import is absent; never a dependency and a block.
C1_BuildResultShape ==
  \A m \in Modules :
    Built(m) =>
      /\ (IsSome(options[m].import) /\ options[m].eager
            => Len(Result(m).dependencies) = 1 /\ Result(m).blocks = <<>>)
      /\ (IsSome(options[m].import) /\ ~options[m].eager
            => Result(m).dependencies = <<>> /\ Len(Result(m).blocks) = 1)
      /\ (options[m].import = None
            => Result(m).dependencies = <<>> /\ Result(m).blocks = <<>>)
      /\ ~(Result(m).dependencies # <<>> /\ Result(m).blocks # <<>>)

C1_Witness ==
  \E m \in Modules :
    /\ Built(m) /\ IsSome(options[m].import) /\ ~options[m].eager
    /\ Len(Result(m).blocks) = 1
    /\ Result(m).blocks[1].dependencies[1].request = "./a"

\* the loader name of each combination, written out
LoaderNameTable(version, strict, singleton) ==
  CASE version /\ strict /\ singleton -> "loaders.loadStrictSingletonVersionCheck"
    [] version /\ strict /\ ~singleton -> "loaders.loadStrictVersionCheck"
    [] version /\ ~strict /\ singleton -> "loaders.loadSingletonVersionCheck"
    [] version /\ ~strict /\ ~singleton -> "loaders.loadVersionCheck"
    [] ~version /\ singleton -> "loaders.loadSingleton"
    [] ~version /\ ~singleton -> "loaders.load"

\* C2: the loader name composed by code_generation is "loaders.load" plus
\* "Strict" iff a version is required and strict_version, "Singleton" iff
\* singleton, "VersionCheck" iff a version is required; the arguments are the
\* quoted scope and key, plus a parseRange of the quoted version iff required.
C2_LoaderName ==
  \A m \in Modules :
    Generated(m) =>
      LET o == options[m]
          version == IsSome(o.required_version)
      IN /\ Output(m).function
              = LoaderNameTable(version, o.strict_version, o.singleton)
         /\ Len(Output(m).args) = IF version THEN 3 ELSE 2
         /\ Output(m).args[1] = "\"" \o o.share_scope \o "\""
         /\ Output(m).args[2] = "\"" \o o.share_key \o "\""
         /\ version => Output(m).args[3]
              = "loaders.parseRange(\"" \o Unwrap(o.required_version).text \o "\")"

C2_Witness ==
  \E m \in Modules :
    /\ Generated(m)
    /\ options[m].strict_version /\ options[m].required_version = None
    /\ options[m].singleton
    /\ Output(m).function = "loaders.loadSingleton"

\* C3 (as claimed): once build has returned, the module's dependencies and
\* blocks never change again and neither is longer than 1.
C3_FrozenAfterBuild ==
  [][\A m \in Modules :
       Built(m) => /\ dependencies'[m] = dependencies[m]
                   /\ blocks'[m] = blocks[m]
                   /\ Len(dependencies[m]) <= 1 /\ Len(blocks[m]) <= 1]_vars

\* C3 (amended): build and code_generation leave the module's dependencies
\* and blocks as they are, and once build has returned every later build
\* returns the same dependencies and blocks, each at most 1 long.
C3_BuildAndGenerationKeepLists ==
  /\ [][BuildStep \/ CodeGenerationStep
          => dependencies' = dependencies /\ blocks' = blocks]_vars
  /\ [][\A m \in Modules :
          Built(m) =>
            /\ Built(m)'
            /\ Result(m)'.dependencies = Result(m).dependencies
            /\ Result(m)'.blocks = Result(m).blocks
            /\ Len(Result(m)'.dependencies) <= 1
            /\ Len(Result(m)'.blocks) <= 1]_vars

C3_Witness ==
  \E m \in Modules :
    /\ Built(m) /\ Generated(m)
    /\ Len(Result(m).dependencies) = 1
    /\ Len(dependencies[m]) = 2

\* C4 (as claimed): lib_ident is "sharing/consume/<scope>/<key>" with
\* "/<import>" appended when import is present, and nothing before it.
C4_LibIdentBare ==
  \A m \in Modules :
    lib_ident[m] =
      "sharing/consume/" \o options[m].share_scope \o "/" \o options[m].share_key
      \o (IF IsSome(options[m].import) THEN "/" \o Unwrap(options[m].import) ELSE "")

\* C4 (amended): lib_ident is "webpack/sharing/consume/<scope>/<key>" with
\* "/<import>" appended when import is present, and nothing else.
C4_LibIdentWebpack ==
  \A m \in Modules :
    lib_ident[m] =
      "webpack/sharing/consume/" \o options[m].share_scope \o "/"
      \o options[m].share_key
      \o (IF IsSome(options[m].import) THEN "/" \o Unwrap(options[m].import) ELSE "")

C4_Witness ==
  \E m \in Modules :
    /\ IsSome(options[m].import)
    /\ lib_ident[m] = "webpack/sharing/consume/default/k/./a"

\* C5: two modules whose options differ in at least one field have distinct
\* identifiers and compare unequal.
C5_DistinctIdentities ==
  \A a, b \in Modules :
    options[a] # options[b] => identifier[a] # identifier[b] /\ ~eq(a, b)

DiffFields(o1, o2) == {f \in OptionFields : o1[f] # o2[f]}

\* C6: under one hash configuration, two modules whose options differ in
\* exactly one field are given different hashes by build.
C6_SingleFieldChangesHash ==
  \A a, b \in Modules :
    Built(a) /\ Built(b) /\ Cardinality(DiffFields(options[a], options[b])) = 1
      => Result(a).hash # Result(b).hash

\* C7: modules constructed from equal options have equal identifier, readable
\* identifier and lib_ident and, built under the same hash configuration,
\* equal hashes; building a module again returns the hash it returned before.
C7_Deterministic ==
  /\ [](\A a, b \in Modules :
          options[a] = options[b] =>
            /\ identifier[a] = identifier[b]
            /\ readable_identifier[a] = readable_identifier[b]
            /\ lib_ident[a] = lib_ident[b]
            /\ (Built(a) /\ Built(b) => Result(a).hash = Result(b).hash))
  /\ [][\A m \in Modules :
          Built(m) /\ Built(m)' => Result(m)'.hash = Result(m).hash]_vars

C7_Witness ==
  /\ options[1] = options[2] /\ context[1] # context[2]
  /\ Built(1) /\ Built(2)
  /\ Len(dependencies[1]) = 2 /\ dependencies[2] = <<>>

\* C8: the payload of code_generation carries the module's options field by
\* field; its fallback is present iff import is present: the synchronous
\* factory of the first dependency id when eager, the asynchronous factory
\* of the first block id when not.
C8_Payload ==
  \A m \in Modules :
    Generated(m) =>
      LET o == options[m]
          data == Output(m).data
      IN /\ data.share_scope = o.share_scope
         /\ data.share_key = o.share_key
         /\ data.import = o.import
         /\ data.required_version = o.required_version
         /\ data.strict_version = o.strict_version
         /\ data.singleton = o.singleton
         /\ data.eager = o.eager
         /\ IsSome(data.fallback) <=> IsSome(o.import)
         /\ IsSome(o.import) /\ o.eager =>
              data.fallback = Some([factory |-> "sync", id |-> dependencies[m][1],
                                    request |-> Unwrap(o.import)])
         /\ IsSome(o.import) /\ ~o.eager =>
              data.fallback = Some([factory |-> "async", id |-> blocks[m][1],
                                    request |-> Unwrap(o.import)])

C8_Witness ==
  \E m \in Modules :
    /\ Built(m) /\ Generated(m)
    /\ IsSome(options[m].import) /\ options[m].eager
    /\ dependencies[m] = <<2, 1>>
    /\ Output(m).data.fallback
         = Some([factory |-> "sync", id |-> 2, request |-> "./a"])

\* C9: a code_generation call changes nothing of the module (identifier,
\* options, dependencies, blocks, build result); all successful calls on a
\* module return one payload, and each requirement set holds SHARE_SCOPE_MAP.
C9_CodeGenerationReadOnly ==
  /\ [][CodeGenerationStep =>
          UNCHANGED <<context, options, identifier, readable_identifier,
                      lib_ident, dependencies, blocks, build_result>>]_vars
  /\ [](\A m \in Modules :
          /\ Cardinality(payloads[m]) <= 1
          /\ Generated(m) =>
               /\ SHARE_SCOPE_MAP \in Output(m).runtime_requirements
               /\ payloads[m] = {Output(m).data})

C9_Witness ==
  \E m \in Modules :
    /\ Built(m) /\ Generated(m)
    /\ Len(blocks[m]) = 2 /\ blocks[m][1] # blocks[m][2]
    /\ ~options[m].eager /\ IsSome(options[m].import)
    /\ Output(m).runtime_requirements = {SHARE_SCOPE_MAP, "ENSURE_CHUNK"}
    /\ payloads[m] = {Output(m).data}

\* C10: a code_generation call on a module whose import is present while the
\* list it indexes (dependencies when eager, blocks when not) is empty
\* panics and returns no payload; with import absent it succeeds, built or not.
C10_PanicsWhenUnrecorded ==
  [][\A m \in Modules, runtime \in Runtimes, extra \in SUBSET FactoryRequirements :
       CodeGeneration(m, runtime, extra) =>
         /\ (/\ IsSome(options[m].import)
             /\ (IF options[m].eager THEN dependencies[m] ELSE blocks[m]) = <<>>)
              => /\ generated'[m] = Some([status |-> "panic"])
                 /\ payloads'[m] = payloads[m]
         /\ options[m].import = None
              => /\ Unwrap(generated'[m]).status = "ok"
                 /\ Unwrap(generated'[m]).data.fallback = None]_vars

C10_Witness ==
  \E m \in Modules :
    /\ Panicked(m) /\ ~Built(m)
    /\ IsSome(options[m].import) /\ options[m].eager
    /\ dependencies[m] = <<>> /\ blocks[m] # <<>>
    /\ payloads[m] = {}
====
